---- MODULE Spec2Model ----
(***************************************************************************)
(* Model of macro-buddy-bot: the macro engine                               *)
(* (src/engine/macro_calculator.py) and the storage layer.                 *)
(*                                                                         *)
(* Numbers.  The engine computes on Python floats.  The model computes on  *)
(* exact fixed-point values held as integers:                              *)
(*   - a per-100g profile value and a goal/consumed/remaining value of the *)
(*     bot's users are decimals; a profile value p is held as 10*p         *)
(*     (tenths), a macro quantity q (calories, grams of protein, ...) as   *)
(*     10000*q;                                                            *)
(*   - an amount returned by the allocator has one decimal and is held as  *)
(*     10*amount (tenths of a gram);                                       *)
(*   - a quantity on hand is held as 100*quantity (hundredths of a gram),  *)
(*     so that quantities below the rounding step exist.                   *)
(* With these units  profile * amount / 100  is the integer product of the *)
(* two held values, and a fill amount  remaining / profile * 100  is, in   *)
(* tenths of a gram, the rational  remaining / profile.                    *)
(* Rationals are pairs <<n, d>> with n >= 0 and d > 0.                      *)
(* round(x, 1) rounds to the nearest tenth; on an exact decimal tie the    *)
(* float that Python rounds lies on either side, so the direction of a tie *)
(* is a nondeterministic input (tieUp).                                    *)
(*                                                                         *)
(* The storage layer (src/database/crud.py) is modelled on whole numbers:  *)
(* goals and quantities in the units the calls are given, tables as sets   *)
(* of rows.                                                                *)
(***************************************************************************)
EXTENDS Integers, Sequences, FiniteSets, TLC

VARIABLES
    pc,               \* position of the call: "idle", "loop", "done"
    remaining_macros, \* argument of calculate_meal_suggestion
    inventory,        \* argument of calculate_meal_suggestion
    max_foods,        \* argument of calculate_meal_suggestion
    sorted_foods,     \* local: positions of inventory, in sorted order
    idx,              \* local: 1-based position of the for loop in the window
    suggestions,      \* local, then the returned list
    remaining,        \* local: the running remaining
    examined,         \* history: one record per candidate the loop examined
    targets,          \* argument of calculate_remaining_macros / calculate_daily_progress
    consumed,         \* argument of calculate_remaining_macros / calculate_daily_progress
    result,           \* value returned by the last arithmetic call
    users,            \* table users: a set of rows
    sqlite_sequence,  \* AUTOINCREMENT: the largest id table users has handed out
    user_calls,       \* history: the create_or_update_user calls, with the User returned
    inventory_table,  \* table inventory: a set of rows
    call,             \* per connection: the inventory call in flight and its locals
    overlap,          \* history: the table when the calls in flight began, and those calls
    inv_calls,        \* history: the inventory calls made one after another, with what each returned
    logs_table,       \* table logs: a set of rows
    today,            \* date.today(), as a day number
    reply,            \* the outcome of the last command handler
    commands          \* number of commands handled

vars == <<pc, remaining_macros, inventory, max_foods, sorted_foods, idx,
          suggestions, remaining, examined, targets, consumed, result,
          users, sqlite_sequence, user_calls, inventory_table, call, overlap,
          inv_calls, logs_table, today, reply, commands>>

allocVars == <<pc, remaining_macros, inventory, max_foods, sorted_foods, idx,
               suggestions, remaining, examined>>

arithVars == <<targets, consumed, result>>

userVars == <<users, sqlite_sequence, user_calls>>

invVars == <<inventory_table, call, overlap, inv_calls>>

botVars == <<logs_table, today, reply, commands>>

----------------------------------------------------------------------------
(* Units *)

\* held value of one macro unit (one calorie, one gram of protein, ...):
\* tenths of a profile value times tenths of a gram, over 100
Unit == 10 * 10 * 100

Nutrients == {"calories", "protein", "carbs", "fat"}

MacroTargets(c, p, cb, f) ==
    [calories |-> c, protein |-> p, carbs |-> cb, fat |-> f]

MacroConsumed(c, p, cb, f) ==
    [calories |-> c, protein |-> p, carbs |-> cb, fat |-> f]

Max(a, b) == IF a >= b THEN a ELSE b

----------------------------------------------------------------------------
(* Rationals <<n, d>>, n >= 0, d > 0, compared without large products *)

RatLeq(a, b) ==
    LET qa == a[1] \div a[2]
        qb == b[1] \div b[2]
        ra == a[1] % a[2]
        rb == b[1] % b[2]
    IN  \/ qa < qb
        \/ qa = qb /\ ra * b[2] <= rb * a[2]

RatMin(a, b) == IF RatLeq(a, b) THEN a ELSE b

\* max(amounts) where the code takes min(amounts)
RECURSIVE RatMaxSeq(_)
RatMaxSeq(s) ==
    IF Len(s) = 1 THEN s[1]
    ELSE IF RatLeq(s[1], RatMaxSeq(Tail(s))) THEN RatMaxSeq(Tail(s)) ELSE s[1]

RECURSIVE RatMinSeq(_)
RatMinSeq(s) ==
    IF Len(s) = 1 THEN s[1] ELSE RatMin(s[1], RatMinSeq(Tail(s)))

\* truncation to one decimal where the code rounds to nearest
round_down(r, tieUp) == r[1] \div r[2]

\* round(x, 1) of x = r[1]/r[2] tenths: the nearest integer number of tenths;
\* on an exact tie, up when tieUp and down otherwise
round(r, tieUp) ==
    LET q   == r[1] \div r[2]
        rem == r[1] % r[2]
    IN  IF 2 * rem > r[2] THEN q + 1
        ELSE IF 2 * rem < r[2] THEN q
        ELSE IF tieUp THEN q + 1 ELSE q

----------------------------------------------------------------------------
(* Macro arithmetic *)

\* the profile value of food for nutrient n (food['<n>_per_100g'])
Per100(food, n) ==
    CASE n = "calories" -> food.calories_per_100g
      [] n = "protein"  -> food.protein_per_100g
      [] n = "carbs"    -> food.carbs_per_100g
      [] n = "fat"      -> food.fat_per_100g

\* target minus consumed without the floor at zero
calculate_remaining_unfloored(t, c) ==
    MacroTargets(t.calories - c.calories, t.protein - c.protein,
                 t.carbs - c.carbs, t.fat - c.fat)

calculate_remaining_macros(t, c) ==
    MacroTargets(Max(0, t.calories - c.calories),
                 Max(0, t.protein - c.protein),
                 Max(0, t.carbs - c.carbs),
                 Max(0, t.fat - c.fat))

\* the multiplier taken as amount_grams, without the division by 100
calculate_food_macros_per_gram(food, amount_grams) ==
    MacroConsumed(food.calories_per_100g * amount_grams * 100,
                  food.protein_per_100g * amount_grams * 100,
                  food.carbs_per_100g * amount_grams * 100,
                  food.fat_per_100g * amount_grams * 100)

\* multiplier = amount_grams / 100.0; each field is per_100g * multiplier.
\* In held values (tenths * tenths of a gram / 100, times Unit) this is the
\* integer product.
calculate_food_macros(food, amount_grams) ==
    MacroConsumed(food.calories_per_100g * amount_grams,
                  food.protein_per_100g * amount_grams,
                  food.carbs_per_100g * amount_grams,
                  food.fat_per_100g * amount_grams)

\* the percentage without the clamp at 100
safe_percentage_unclamped(consumed_val, target_val) ==
    IF target_val = 0 THEN <<100, 1>>
    ELSE <<consumed_val * 100, target_val>>

\* safe_percentage of calculate_daily_progress, as a rational
safe_percentage(consumed_val, target_val) ==
    IF target_val = 0 THEN <<100, 1>>
    ELSE RatMin(<<100, 1>>, <<consumed_val * 100, target_val>>)

calculate_daily_progress(t, c) ==
    LET rem == calculate_remaining_macros(t, c)
    IN  [n \in Nutrients |->
            [consumed |-> c[n], target |-> t[n], remaining |-> rem[n],
             percentage |-> safe_percentage(c[n], t[n])]]

\* the fold of suggest_command / status_command over the day's logs:
\* consumed = MacroConsumed(0, 0, 0, 0); for log in logs: consumed.<n> += ...
AddMacros(c, m) ==
    MacroConsumed(c.calories + m.calories, c.protein + m.protein,
                  c.carbs + m.carbs, c.fat + m.fat)

\* a fold that assigns where the code adds: the last event wins
accumulate_overwriting(logs) ==
    IF logs = << >> THEN MacroConsumed(0, 0, 0, 0)
    ELSE calculate_food_macros(logs[Len(logs)], logs[Len(logs)].amount_grams)

RECURSIVE accumulate(_)
accumulate(logs) ==
    IF logs = << >> THEN MacroConsumed(0, 0, 0, 0)
    ELSE AddMacros(accumulate(SubSeq(logs, 1, Len(logs) - 1)),
                   calculate_food_macros(logs[Len(logs)], logs[Len(logs)].amount_grams))

\* int(a / b) for b > 0 rounding to nearest: 5.5 gives 6
int_nearest(a, b) == (2 * a + b) \div (2 * b)

\* int(a / b) for b > 0: Python's int() truncates toward zero
int(a, b) == IF a >= 0 THEN a \div b ELSE 0 - ((0 - a) \div b)

\* the length of  "c" * n : a negative count gives the empty string
Repeat(n) == Max(0, n)

\* format_progress_bar: percentage in tenths of a percent; the text is held as
\* the number of filled cells, the number of empty cells and the suffix's value
format_progress_bar(percentage, width) ==
    LET filled == int(percentage * width, 100 * 10)
    IN  [filled |-> Repeat(filled), empty |-> Repeat(width - filled),
         suffix |-> percentage]

----------------------------------------------------------------------------
(* Greedy allocator *)

\* the portion cap of _calculate_optimal_amount, in grams
PortionCap == 500

\* the quotient appended whenever the remaining is > 0, whatever the profile
FillAmountUngated(food, rem, n) ==
    IF rem[n] > 0
    THEN << <<rem[n], Per100(food, n)>> >>
    ELSE << >>

\* (remaining.<n> / food['<n>_per_100g']) * 100, appended when both are > 0
FillAmount(food, rem, n) ==
    IF Per100(food, n) > 0 /\ rem[n] > 0
    THEN << <<rem[n], Per100(food, n)>> >>
    ELSE << >>

\* the list "amounts", in the order the code appends to it
Amounts(food, rem) ==
    FillAmount(food, rem, "protein") \o FillAmount(food, rem, "calories")
        \o FillAmount(food, rem, "carbs") \o FillAmount(food, rem, "fat")

\* the early exit taken only when all four nutrients are exhausted
EarlyExitAllFour(rem) ==
    rem.protein <= 0 /\ rem.calories <= 0 /\ rem.carbs <= 0 /\ rem.fat <= 0

\* "if remaining.protein <= 0 and remaining.calories <= 0: return 0"
EarlyExit(rem) == rem.protein <= 0 /\ rem.calories <= 0

\* the amount in tenths of a gram; 0 is the code's "return 0"
calculate_optimal_amount(food, rem, tieUp) ==
    IF EarlyExit(rem) THEN 0
    ELSE IF Amounts(food, rem) = << >> THEN 0
    ELSE LET optimal_amount == RatMinSeq(Amounts(food, rem))
             \* min(optimal_amount, food['quantity_grams'], 500), in tenths of
             \* a gram: the quantity is held in hundredths, the cap is in grams
             capped == RatMin(RatMin(optimal_amount, <<food.quantity_grams, 10>>),
                              <<PortionCap * 10, 1>>)
         IN  round(capped, tieUp)

\* the acceptance test without the on-hand check
AcceptedAnyQuantity(food, amount) == amount > 0

\* amount > 0 and amount <= food['quantity_grams'] (tenths against hundredths)
Accepted(food, amount) ==
    amount > 0 /\ amount * 10 <= food.quantity_grams

\* the insertion placing a position before the positions of equal calories:
\* descending, but equal keys in reverse input order
RECURSIVE InsertSortedUnstable(_, _, _)
InsertSortedUnstable(inv, s, i) ==
    IF s = << >> THEN <<i>>
    ELSE IF inv[s[1]].calories_per_100g > inv[i].calories_per_100g
         THEN <<s[1]>> \o InsertSortedUnstable(inv, Tail(s), i)
         ELSE <<i>> \o s

\* insert position i of inv into the sorted list of positions s: after every
\* position whose calories are >= (descending, equal keys keep input order)
RECURSIVE InsertSorted(_, _, _)
InsertSorted(inv, s, i) ==
    IF s = << >> THEN <<i>>
    ELSE IF inv[s[1]].calories_per_100g >= inv[i].calories_per_100g
         THEN <<s[1]>> \o InsertSorted(inv, Tail(s), i)
         ELSE <<i>> \o s

\* sorted(inventory, key=calories_per_100g, reverse=True), as positions of inventory
RECURSIVE SortPrefix(_, _)
SortPrefix(inv, n) ==
    IF n = 0 THEN << >> ELSE InsertSorted(inv, SortPrefix(inv, n - 1), n)

sorted(inv) == SortPrefix(inv, Len(inv))

Min(a, b) == IF a <= b THEN a ELSE b

\* the loop over all of sorted_foods, without the slice
WindowWhole(sf, mf) == sf

\* sorted_foods[:max_foods * 2], for max_foods >= 0
Window(sf, mf) == SubSeq(sf, 1, Min(Len(sf), mf * 2))

\* the break test off by one: one pick too many
BreakTestOffByOne(sugg, mf) == Len(sugg) > mf

\* "if len(suggestions) >= max_foods: break"
BreakTest(sugg, mf) == Len(sugg) >= mf

FoodSuggestion(food, src, amount, m) ==
    [food_id |-> food.food_id, src |-> src, amount_grams |-> amount,
     calories |-> m.calories, protein |-> m.protein,
     carbs |-> m.carbs, fat |-> m.fat]

\* the update re-flooring the running remaining at zero
SubtractFloored(rem, m) ==
    MacroTargets(Max(0, rem.calories - m.calories), Max(0, rem.protein - m.protein),
                 Max(0, rem.carbs - m.carbs), Max(0, rem.fat - m.fat))

Subtract(rem, m) ==
    MacroTargets(rem.calories - m.calories, rem.protein - m.protein,
                 rem.carbs - m.carbs, rem.fat - m.fat)

----------------------------------------------------------------------------
(* Inputs of the allocator *)

\* longest inventory passed to a call
MaxInv == 3

\* largest max_foods passed to a call (the default is 3)
MaxFoodsArg == 3

Food(id, cal, pro, carb, fat, qty) ==
    [food_id |-> id, calories_per_100g |-> cal, protein_per_100g |-> pro,
     carbs_per_100g |-> carb, fat_per_100g |-> fat, quantity_grams |-> qty]

\* inventory rows: profiles in tenths per 100 g, quantity in hundredths of a gram
Eggs     == Food(1, 1550, 130, 11, 110, 50000)   \* {155, 13, 1.1, 11}, 500 g
Chicken  == Food(2, 1650, 310, 0, 36, 26)        \* {165, 31, 0, 3.6}, 0.26 g
Rice     == Food(3, 1300, 27, 280, 3, 60000)     \* {130, 2.7, 28, 0.3}, 600 g
OliveOil == Food(4, 8840, 0, 0, 1000, 25)        \* {884, 0, 0, 100}, 0.25 g
Water    == Food(5, 0, 0, 0, 0, 10000)           \* all-zero profile, 100 g
Tofu     == Food(6, 1550, 170, 30, 90, 15000)    \* calories equal to eggs, 150 g
Broccoli == Food(7, 340, 28, 70, 4, 4)           \* {34, 2.8, 7, 0.4}, 0.04 g

Items == {Eggs, Chicken, Rice, OliveOil, Water, Tofu, Broccoli}

RECURSIVE SeqsUpTo(_, _)
SeqsUpTo(S, n) ==
    IF n = 0 THEN {<< >>}
    ELSE LET shorter == SeqsUpTo(S, n - 1)
         IN  shorter \cup {Append(s, x) : s \in {t \in shorter : Len(t) = n - 1}, x \in S}

Inventories == SeqsUpTo(Items, MaxInv)

\* remaining budgets, in macro units
Budget(c, p, cb, f) == MacroTargets(c * Unit, p * Unit, cb * Unit, f * Unit)

RemainingInputs ==
    { Budget(1700, 120, 160, 45),   \* the remaining of the spec's example
      Budget(2000, 150, 160, 60),   \* nothing consumed yet
      Budget(300, 20, 0, 5),
      Budget(0, 0, 160, 45),        \* protein and calories met, carbs and fat open
      Budget(0, 30, 0, 0),
      Budget(40, 0, 10, 0),
      Budget(0, 0, 0, 0),
      Budget(0 - 50, 0, 160, 45) }  \* an overshot budget passed unfloored

----------------------------------------------------------------------------
(* calculate_meal_suggestion as a state machine: one step per loop iteration *)

NoMacros == MacroTargets(0, 0, 0, 0)

AllocIdle ==
    /\ pc = "idle"
    /\ remaining_macros = NoMacros
    /\ inventory = << >>
    /\ max_foods = 0
    /\ sorted_foods = << >>
    /\ idx = 1
    /\ suggestions = << >>
    /\ remaining = NoMacros
    /\ examined = << >>

ArithIdle ==
    /\ targets = NoMacros
    /\ consumed = NoMacros
    /\ result = [op |-> "none"]

\* the connections that run inventory calls side by side
Connections == {1, 2}

\* no inventory call in flight on a connection
NoCall == [pc |-> "idle"]

\* the database after init_database on a new file: every table exists, empty
StorageEmpty ==
    /\ users = {}
    /\ sqlite_sequence = 0
    /\ user_calls = << >>
    /\ inventory_table = {}
    /\ call = [p \in Connections |-> NoCall]
    /\ overlap = [start |-> {}, calls |-> << >>, begun |-> 0]
    /\ inv_calls = << >>
    /\ logs_table = {}
    /\ today = 1
    /\ reply = [command |-> "none"]
    /\ commands = 0

Init == AllocIdle /\ ArithIdle /\ StorageEmpty

\* the caller's object left aliased to the local that the loop subtracts from
CallersRemainingAliased(caller, local) == local

\* the caller's remaining_macros after the loop has written local: "remaining"
\* is a MacroTargets built afresh from the four fields, so the subtraction
\* never reaches the caller's object
CallersRemaining(caller, local) == caller

\* the loop index going back to the head of the window after an acceptance
NextIndexRescan(i, accepted) == IF accepted THEN 1 ELSE i + 1

\* "for food in sorted_foods[:max_foods * 2]": the iteration moves on to the
\* next item of the slice after an acceptance and after a rejection alike
NextIndex(i, accepted) == i + 1

\* the call, up to the first loop test: the empty-inventory return, the copy of
\* remaining_macros and the sort
Call(rm, inv, mf) ==
    /\ pc = "idle"
    /\ remaining_macros' = rm
    /\ inventory' = inv
    /\ max_foods' = mf
    /\ suggestions' = << >>
    /\ examined' = << >>
    /\ idx' = 1
    /\ IF inv = << >>
       THEN /\ pc' = "done"
            /\ UNCHANGED <<sorted_foods, remaining>>
       ELSE /\ pc' = "loop"
            /\ remaining' = MacroTargets(rm.calories, rm.protein, rm.carbs, rm.fat)
            /\ sorted_foods' = sorted(inv)
    /\ UNCHANGED <<arithVars, userVars, invVars, botVars>>

\* one iteration of the for loop that reaches _calculate_optimal_amount
LoopBody(tieUp) ==
    /\ pc = "loop"
    /\ idx <= Len(Window(sorted_foods, max_foods))
    /\ ~BreakTest(suggestions, max_foods)
    /\ LET src    == sorted_foods[idx]
           food   == inventory[src]
           amount == calculate_optimal_amount(food, remaining, tieUp)
           food_macros == calculate_food_macros(food, amount)
           written == IF Accepted(food, amount)
                      THEN Subtract(remaining, food_macros)
                      ELSE remaining
       IN  /\ IF Accepted(food, amount)
              THEN suggestions' = Append(suggestions,
                                         FoodSuggestion(food, src, amount, food_macros))
              ELSE UNCHANGED suggestions
           /\ remaining' = written
           /\ remaining_macros' = CallersRemaining(remaining_macros, written)
           /\ examined' = Append(examined,
                                 [src |-> src, pos |-> idx, seen |-> remaining,
                                  amount |-> amount,
                                  accepted |-> Accepted(food, amount)])
           /\ idx' = NextIndex(idx, Accepted(food, amount))
    /\ UNCHANGED <<pc, inventory, max_foods, sorted_foods>>
    /\ UNCHANGED <<arithVars, userVars, invVars, botVars>>

\* "if len(suggestions) >= max_foods: break", then return suggestions
LoopBreak ==
    /\ pc = "loop"
    /\ idx <= Len(Window(sorted_foods, max_foods))
    /\ BreakTest(suggestions, max_foods)
    /\ pc' = "done"
    /\ UNCHANGED <<remaining_macros, inventory, max_foods, sorted_foods, idx,
                   suggestions, remaining, examined>>
    /\ UNCHANGED <<arithVars, userVars, invVars, botVars>>

\* the window is exhausted: return suggestions
LoopEnd ==
    /\ pc = "loop"
    /\ idx > Len(Window(sorted_foods, max_foods))
    /\ pc' = "done"
    /\ UNCHANGED <<remaining_macros, inventory, max_foods, sorted_foods, idx,
                   suggestions, remaining, examined>>
    /\ UNCHANGED <<arithVars, userVars, invVars, botVars>>

\* the caller has consumed the returned list; the calculator holds no state
Return ==
    /\ pc = "done"
    /\ pc' = "idle"
    /\ remaining_macros' = NoMacros
    /\ inventory' = << >>
    /\ max_foods' = 0
    /\ sorted_foods' = << >>
    /\ idx' = 1
    /\ suggestions' = << >>
    /\ remaining' = NoMacros
    /\ examined' = << >>
    /\ UNCHANGED <<arithVars, userVars, invVars, botVars>>

\* a caller calls calculate_meal_suggestion(rm, inv, mf)
CallMealSuggestion ==
    /\ pc = "idle"
    /\ \E rm \in RemainingInputs, inv \in Inventories, mf \in 0..MaxFoodsArg :
          Call(rm, inv, mf)

AllocNext ==
    \/ CallMealSuggestion
    \/ \E tieUp \in BOOLEAN : LoopBody(tieUp)
    \/ LoopBreak
    \/ LoopEnd
    \/ Return

SpecAlloc == Init /\ [][AllocNext]_vars

----------------------------------------------------------------------------
(* The arithmetic and progress functions, applied to drawn inputs *)

\* largest goal or consumed value drawn for each nutrient
MaxMacro == 2

\* non-negative goals and consumed totals: every combination of small values,
\* and the totals of the spec's and the tests' examples
SmallMacros ==
    {MacroTargets(c, p, cb, f) : c \in 0..MaxMacro, p \in 0..MaxMacro,
                                 cb \in 0..MaxMacro, f \in 0..MaxMacro}

TargetInputs ==
    SmallMacros \cup {Budget(2000, 150, 160, 60), Budget(0, 0, 0, 0)}

ConsumedInputs ==
    SmallMacros \cup {Budget(300, 30, 0, 15), Budget(2100, 150, 10, 80)}

\* remaining = calculate_remaining_macros(targets, consumed)
CallRemaining ==
    /\ result.op = "none"
    /\ \E t \in TargetInputs, c \in ConsumedInputs :
        /\ targets' = t
        /\ consumed' = c
        /\ result' = [op |-> "remaining", value |-> calculate_remaining_macros(t, c)]
        /\ UNCHANGED <<allocVars, userVars, invVars, botVars>>

\* progress = calculate_daily_progress(targets, consumed)
CallProgress ==
    /\ result.op = "none"
    /\ \E t \in TargetInputs, c \in ConsumedInputs :
        /\ targets' = t
        /\ consumed' = c
        /\ result' = [op |-> "progress", value |-> calculate_daily_progress(t, c)]
        /\ UNCHANGED <<allocVars, userVars, invVars, botVars>>

\* largest width of a progress bar (the default is 10)
MaxWidth == 10

\* percentages in tenths of a percent: below 0, 0 to 100 in steps of 5, some
\* values between the steps, above 100
PercentInputs ==
    {0 - 200, 0 - 5} \cup {p * 50 : p \in 0..20} \cup {1, 299, 999} \cup {1001, 1500}

\* the food of the spec's example: {200, 20, 0, 10} per 100 g
ExampleFood == Food(8, 2000, 200, 0, 100, 0)

\* amounts in tenths of a gram: 0, 0.5, 100 and 150 g, and a negative amount
AmountInputs == {0, 5, 1000, 1500, 0 - 1500}

\* most events of one day
MaxEvents == 3

\* a row of get_user_logs_today: the food's profile and the logged amount
LogRow(food, amount) ==
    [food_id |-> food.food_id, calories_per_100g |-> food.calories_per_100g,
     protein_per_100g |-> food.protein_per_100g,
     carbs_per_100g |-> food.carbs_per_100g, fat_per_100g |-> food.fat_per_100g,
     amount_grams |-> amount]

\* the breakfast of the tests (eggs 100 g, rice 50 g), the spec's example and
\* a small amount of chicken
EventInputs ==
    {LogRow(Eggs, 1000), LogRow(Rice, 500), LogRow(ExampleFood, 1500),
     LogRow(Chicken, 5)}

\* bar = format_progress_bar(percentage, width)
CallProgressBar ==
    /\ result.op = "none"
    /\ \E pct \in PercentInputs, width \in 0..MaxWidth :
          result' = [op |-> "bar", percentage |-> pct, width |-> width,
                     value |-> format_progress_bar(pct, width)]
    /\ UNCHANGED <<targets, consumed>>
    /\ UNCHANGED <<allocVars, userVars, invVars, botVars>>

\* food_macros = calculate_food_macros(food, amount_grams)
CallFoodMacros ==
    /\ result.op = "none"
    /\ \E food \in Items \cup {ExampleFood}, amount \in AmountInputs :
          result' = [op |-> "food_macros", food |-> food, amount |-> amount,
                     value |-> calculate_food_macros(food, amount)]
    /\ UNCHANGED <<targets, consumed>>
    /\ UNCHANGED <<allocVars, userVars, invVars, botVars>>

\* the handlers' fold over the rows of get_user_logs_today
CallAccumulate ==
    /\ result.op = "none"
    /\ \E logs \in SeqsUpTo(EventInputs, MaxEvents) :
          /\ consumed' = accumulate(logs)
          /\ result' = [op |-> "consumed", logs |-> logs, value |-> accumulate(logs)]
    /\ UNCHANGED targets
    /\ UNCHANGED <<allocVars, userVars, invVars, botVars>>

\* the caller has consumed the result; the calculator holds no state
ArithReturn ==
    /\ result.op # "none"
    /\ targets' = NoMacros
    /\ consumed' = NoMacros
    /\ result' = [op |-> "none"]
    /\ UNCHANGED <<allocVars, userVars, invVars, botVars>>

ArithNext ==
    \/ CallRemaining
    \/ CallProgress
    \/ CallProgressBar
    \/ CallFoodMacros
    \/ CallAccumulate
    \/ ArithReturn

SpecArith == Init /\ [][ArithNext]_vars

----------------------------------------------------------------------------
(* The storage layer: table users and create_or_update_user *)

\* number of create_or_update_user calls in a run
MaxUserCalls == 4

\* the chat ids of test_bot.py
ChatIds == {12345, 99999}

Goals(c, p, cb, f) ==
    [calories_goal |-> c, protein_goal |-> p, carbs_goal |-> cb, fat_goal |-> f]

\* the defaults, and two sets of goals that differ from them in every field
GoalInputs ==
    { Goals(2000, 150, 160, 60), Goals(1800, 120, 200, 50),
      Goals(2500, 180, 250, 80) }

\* a row of table users (created_at left out: nothing reads it)
UserRow(id, chat_id, goals) ==
    [id |-> id, chat_id |-> chat_id,
     calories_goal |-> goals.calories_goal, protein_goal |-> goals.protein_goal,
     carbs_goal |-> goals.carbs_goal, fat_goal |-> goals.fat_goal]

\* "SELECT id FROM users WHERE chat_id = ?": the ids found
SelectUserId(tbl, chat_id) ==
    {r.id : r \in {x \in tbl : x.chat_id = chat_id}}

\* an UPDATE that sets three of the goals and leaves fat_goal as stored
UpdateUserKeepingFat(tbl, chat_id, goals) ==
    {IF r.chat_id = chat_id
     THEN [r EXCEPT !.calories_goal = goals.calories_goal,
                    !.protein_goal = goals.protein_goal,
                    !.carbs_goal = goals.carbs_goal]
     ELSE r : r \in tbl}

\* "UPDATE users SET calories_goal = ?, protein_goal = ?, carbs_goal = ?,
\*  fat_goal = ? WHERE chat_id = ?"
UpdateUser(tbl, chat_id, goals) ==
    {IF r.chat_id = chat_id THEN UserRow(r.id, r.chat_id, goals) ELSE r : r \in tbl}

\* "INSERT INTO users (chat_id, ...goals) VALUES (...)" with the id that
\* AUTOINCREMENT hands out
InsertUser(tbl, id, chat_id, goals) == tbl \cup {UserRow(id, chat_id, goals)}

\* create_or_update_user(chat_id, goals), SELECT to commit; the history takes
\* the call and the id of the User it returns
create_or_update_user(chat_id, goals) ==
    /\ Len(user_calls) < MaxUserCalls
    /\ LET existing == SelectUserId(users, chat_id)
       IN  IF existing # {}
           THEN /\ users' = UpdateUser(users, chat_id, goals)
                /\ UNCHANGED sqlite_sequence
                /\ user_calls' = Append(user_calls,
                                        [chat_id |-> chat_id, goals |-> goals,
                                         user_id |-> CHOOSE i \in existing : TRUE])
           ELSE /\ users' = InsertUser(users, sqlite_sequence + 1, chat_id, goals)
                /\ sqlite_sequence' = sqlite_sequence + 1
                /\ user_calls' = Append(user_calls,
                                        [chat_id |-> chat_id, goals |-> goals,
                                         user_id |-> sqlite_sequence + 1])
    /\ UNCHANGED <<allocVars, arithVars, invVars, botVars>>

UsersNext ==
    \E chat_id \in ChatIds, goals \in GoalInputs :
        create_or_update_user(chat_id, goals)

SpecUsers == Init /\ [][UsersNext]_vars

----------------------------------------------------------------------------
(* The storage layer: table inventory, with add_to_inventory and            *)
(* remove_from_inventory run on two connections. A call opens a connection  *)
(* of its own and holds no transaction between its SELECT and its write, so *)
(* the statements of two calls interleave.                                  *)

\* number of inventory calls begun in a run
MaxInvCalls == 3

UserIds == {1}

FoodIds == {1, 2}

\* quantities passed to the calls, in grams
Quantities == {200, 300}

InvRow(u, f, q) == [user_id |-> u, food_id |-> f, quantity_grams |-> q]

InvCall(op, u, f, q) ==
    [op |-> op, user_id |-> u, food_id |-> f, quantity_grams |-> q]

\* "SELECT quantity_grams FROM inventory WHERE user_id = ? AND food_id = ?":
\* the set holding the quantity of the row, empty when fetchone() gives None
SelectQuantity(tbl, u, f) ==
    {r.quantity_grams : r \in {x \in tbl : x.user_id = u /\ x.food_id = f}}

\* "UPDATE inventory SET quantity_grams = ? WHERE user_id = ? AND food_id = ?":
\* no row matches, nothing changes
UpdateQuantity(tbl, u, f, q) ==
    {IF r.user_id = u /\ r.food_id = f THEN InvRow(u, f, q) ELSE r : r \in tbl}

\* "DELETE FROM inventory WHERE user_id = ? AND food_id = ?"
DeleteRow(tbl, u, f) == {r \in tbl : ~(r.user_id = u /\ r.food_id = f)}

\* "INSERT INTO inventory (user_id, food_id, quantity_grams) VALUES (?, ?, ?)":
\* PRIMARY KEY (user_id, food_id) makes it raise IntegrityError on a row that
\* is there; the call ends without a commit and the table stays as it is
InsertRow(tbl, u, f, q) ==
    IF SelectQuantity(tbl, u, f) # {} THEN tbl ELSE tbl \cup {InvRow(u, f, q)}

\* the write that stores the quantity passed, whatever the row held
add_to_inventory_write_replacing(tbl, c, existing) ==
    IF existing # {}
    THEN UpdateQuantity(tbl, c.user_id, c.food_id, c.quantity_grams)
    ELSE InsertRow(tbl, c.user_id, c.food_id, c.quantity_grams)

\* add_to_inventory after its SELECT returned existing: UPDATE or INSERT
add_to_inventory_write(tbl, c, existing) ==
    IF existing # {}
    THEN LET new_quantity == (CHOOSE q \in existing : TRUE) + c.quantity_grams
         IN  UpdateQuantity(tbl, c.user_id, c.food_id, new_quantity)
    ELSE InsertRow(tbl, c.user_id, c.food_id, c.quantity_grams)

\* the test that returns False on a missing row only
RemoveRejectedMissingOnly(c, existing) == existing = {}

\* "if not existing or existing[0] < quantity_grams: return False"
RemoveRejected(c, existing) ==
    existing = {} \/ (CHOOSE q \in existing : TRUE) < c.quantity_grams

\* the write that deletes the row only below zero, storing a quantity of 0
remove_from_inventory_write_keeping_zero(tbl, c, existing) ==
    LET new_quantity == (CHOOSE q \in existing : TRUE) - c.quantity_grams
    IN  IF new_quantity < 0
        THEN DeleteRow(tbl, c.user_id, c.food_id)
        ELSE UpdateQuantity(tbl, c.user_id, c.food_id, new_quantity)

\* remove_from_inventory after its SELECT returned existing: DELETE or UPDATE
remove_from_inventory_write(tbl, c, existing) ==
    LET new_quantity == (CHOOSE q \in existing : TRUE) - c.quantity_grams
    IN  IF new_quantity <= 0
        THEN DeleteRow(tbl, c.user_id, c.food_id)
        ELSE UpdateQuantity(tbl, c.user_id, c.food_id, new_quantity)

\* no call is between its SELECT and its write
Quiescent == \A p \in Connections : call[p].pc = "idle"

\* the history after call c has begun: a call that begins with no other in
\* flight opens a new history from the table as it stands
Begun(c) ==
    IF Quiescent
    THEN [start |-> inventory_table, calls |-> <<c>>, begun |-> overlap.begun + 1]
    ELSE [overlap EXCEPT !.calls = Append(@, c), !.begun = @ + 1]

\* add_to_inventory on connection p, up to fetchone()
AddToInventorySelect(p, u, f, q) ==
    /\ call[p].pc = "idle"
    /\ overlap.begun < MaxInvCalls
    /\ call' = [call EXCEPT ![p] =
                   [pc |-> "selected", call |-> InvCall("add", u, f, q),
                    existing |-> SelectQuantity(inventory_table, u, f)]]
    /\ overlap' = Begun(InvCall("add", u, f, q))
    /\ UNCHANGED <<inventory_table, inv_calls>>
    /\ UNCHANGED <<allocVars, arithVars, userVars, botVars>>

\* add_to_inventory on connection p, from the UPDATE or INSERT to the return
AddToInventoryWrite(p) ==
    /\ call[p].pc = "selected"
    /\ call[p].call.op = "add"
    /\ inventory_table' = add_to_inventory_write(inventory_table, call[p].call,
                                                 call[p].existing)
    /\ call' = [call EXCEPT ![p] = NoCall]
    /\ UNCHANGED <<overlap, inv_calls>>
    /\ UNCHANGED <<allocVars, arithVars, userVars, botVars>>

\* remove_from_inventory on connection p, up to fetchone() and the test that
\* returns False
RemoveFromInventorySelect(p, u, f, q) ==
    /\ call[p].pc = "idle"
    /\ overlap.begun < MaxInvCalls
    /\ LET c == InvCall("remove", u, f, q)
           existing == SelectQuantity(inventory_table, u, f)
       IN  /\ call' = [call EXCEPT ![p] =
                         IF RemoveRejected(c, existing) THEN NoCall
                         ELSE [pc |-> "selected", call |-> c, existing |-> existing]]
           /\ overlap' = Begun(c)
    /\ UNCHANGED <<inventory_table, inv_calls>>
    /\ UNCHANGED <<allocVars, arithVars, userVars, botVars>>

\* remove_from_inventory on connection p, from the DELETE or UPDATE to the
\* return of True
RemoveFromInventoryWrite(p) ==
    /\ call[p].pc = "selected"
    /\ call[p].call.op = "remove"
    /\ inventory_table' = remove_from_inventory_write(inventory_table, call[p].call,
                                                      call[p].existing)
    /\ call' = [call EXCEPT ![p] = NoCall]
    /\ UNCHANGED <<overlap, inv_calls>>
    /\ UNCHANGED <<allocVars, arithVars, userVars, botVars>>

InventoryNext ==
    \/ \E p \in Connections, u \in UserIds, f \in FoodIds, q \in Quantities :
          AddToInventorySelect(p, u, f, q)
    \/ \E p \in Connections : AddToInventoryWrite(p)
    \/ \E p \in Connections, u \in UserIds, f \in FoodIds, q \in Quantities :
          RemoveFromInventorySelect(p, u, f, q)
    \/ \E p \in Connections : RemoveFromInventoryWrite(p)

SpecInventory == Init /\ [][InventoryNext]_vars

----------------------------------------------------------------------------
(* The storage layer: add_to_inventory, remove_from_inventory and           *)
(* get_user_inventory called one after another, each call running from its  *)
(* SELECT to its return before the next begins                              *)

\* number of inventory calls in a run
MaxSeqCalls == 3

\* two users, to tell one user's rows from the other's
SeqUserIds == {1, 2}

\* table foods: the ids of eggs (1), chicken breast (2) and rice (3), in the
\* order of their names
FoodsByName == <<2, 1, 3>>

\* the row of table foods with this id, as a profile in tenths per 100 g
FoodRow(id) == CHOOSE x \in {Eggs, Chicken, Rice} : x.food_id = id

\* get_user_inventory: the rows of the user with quantity_grams > 0, joined
\* with foods, ORDER BY f.name; quantity_grams as stored (grams)
get_user_inventory(tbl, u) ==
    LET Listed(id) == \E r \in tbl : /\ r.user_id = u /\ r.food_id = id
                                     /\ r.quantity_grams > 0
        ids == SelectSeq(FoodsByName, Listed)
    IN  [k \in 1..Len(ids) |->
            [FoodRow(ids[k]) EXCEPT !.quantity_grams =
                (CHOOSE r \in tbl : r.user_id = u /\ r.food_id = ids[k]).quantity_grams]]

\* add_to_inventory(u, f, q), SELECT to return
add_to_inventory(u, f, q) ==
    /\ Len(inv_calls) < MaxSeqCalls
    /\ LET c == InvCall("add", u, f, q)
           existing == SelectQuantity(inventory_table, u, f)
       IN  /\ inventory_table' = add_to_inventory_write(inventory_table, c, existing)
           /\ inv_calls' = Append(inv_calls, [call |-> c, before |-> inventory_table,
                                              ret |-> TRUE])
    /\ UNCHANGED <<call, overlap>>
    /\ UNCHANGED <<allocVars, arithVars, userVars, botVars>>

\* remove_from_inventory(u, f, q), SELECT to return; ret is the value returned
remove_from_inventory(u, f, q) ==
    /\ Len(inv_calls) < MaxSeqCalls
    /\ LET c == InvCall("remove", u, f, q)
           existing == SelectQuantity(inventory_table, u, f)
       IN  IF RemoveRejected(c, existing)
           THEN /\ UNCHANGED inventory_table
                /\ inv_calls' = Append(inv_calls, [call |-> c, before |-> inventory_table,
                                                   ret |-> FALSE])
           ELSE /\ inventory_table' = remove_from_inventory_write(inventory_table, c,
                                                                  existing)
                /\ inv_calls' = Append(inv_calls, [call |-> c, before |-> inventory_table,
                                                   ret |-> TRUE])
    /\ UNCHANGED <<call, overlap>>
    /\ UNCHANGED <<allocVars, arithVars, userVars, botVars>>

InventorySeqNext ==
    \/ \E u \in SeqUserIds, f \in FoodIds, q \in Quantities : add_to_inventory(u, f, q)
    \/ \E u \in SeqUserIds, f \in FoodIds, q \in Quantities : remove_from_inventory(u, f, q)

SpecInventorySeq == Init /\ [][InventorySeqNext]_vars

----------------------------------------------------------------------------
(* The command handlers (src/bot/handlers.py) on the storage layer.         *)
(* Numbers typed in a command are held in tenths: a goal of 150 is 1500, an *)
(* amount of 100 g is 1000.  A column of a row is the set holding its       *)
(* value, the empty set being NULL.                                         *)

\* number of commands that write to a table, and of day changes, in a run
MaxWrites == 3

\* an argument of a command: its text, what kind of literal it is, and for a
\* number its value in tenths
Tok(text, lex, v) == [text |-> text, lex |-> lex, v |-> v]

T2000    == Tok("2000", "int", 2000 * 10)
T1800    == Tok("1800", "int", 1800 * 10)
T500     == Tok("500", "int", 500 * 10)
T150     == Tok("150", "int", 150 * 10)
T160     == Tok("160", "int", 160 * 10)
T100     == Tok("100", "int", 100 * 10)
T60      == Tok("60", "int", 60 * 10)
T0       == Tok("0", "int", 0)
TMinus5  == Tok("-5", "int", 0 - 5 * 10)
T2000_5  == Tok("2000.5", "decimal", 2000 * 10 + 5)
TNan     == Tok("nan", "nan", 0)
TAbc     == Tok("abc", "word", 0)
TEggs    == Tok("eggs", "word", 0)
TChicken == Tok("chicken", "word", 0)
TBreast  == Tok("breast", "word", 0)

\* a Python float: a number in tenths, or nan
PyNum(v) == [nan |-> FALSE, v |-> v]
PyNaN    == [nan |-> TRUE, v |-> 0]

\* int(text): the set holding the value, empty when int() raises ValueError
int_of(tok) == IF tok.lex = "int" THEN {tok.v} ELSE {}

\* float(text): the set holding the value, empty when float() raises ValueError;
\* float("nan") is a float
float_of(tok) ==
    IF tok.lex \in {"int", "decimal"} THEN {PyNum(tok.v)}
    ELSE IF tok.lex = "nan" THEN {PyNaN}
    ELSE {}

\* x <= 0 and x < 0 on floats: every comparison with nan is False
LeqZero(x)  == ~x.nan /\ x.v <= 0
LessZero(x) == ~x.nan /\ x.v < 0

\* a float bound to a column: sqlite3 stores nan as NULL
SqlReal(x) == IF x.nan THEN {} ELSE {x.v}

\* the names of table foods, word by word, by id
FoodNames == [i \in {1, 2, 3} |->
                IF i = 1 THEN <<"eggs">>
                ELSE IF i = 2 THEN <<"chicken", "breast">>
                ELSE <<"rice">>]

\* get_food_by_name: the ids of the foods whose name is the words given
get_food_by_name(words) == {i \in DOMAIN FoodNames : FoodNames[i] = words}

\* get_user_by_chat_id: the rows found
get_user_by_chat_id(tbl, chat_id) == {r \in tbl : r.chat_id = chat_id}

\* the defaults of create_or_update_user, as stored
DefaultGoals == Goals({2000 * 10}, {150 * 10}, {160 * 10}, {60 * 10})

\* create_or_update_user as a function of the table and the AUTOINCREMENT
\* counter: the table and the counter after the call
CreateOrUpdate(tbl, seq, chat_id, goals) ==
    IF SelectUserId(tbl, chat_id) # {}
    THEN [users |-> UpdateUser(tbl, chat_id, goals), sqlite_sequence |-> seq]
    ELSE [users |-> InsertUser(tbl, seq + 1, chat_id, goals),
          sqlite_sequence |-> seq + 1]

\* a handler that creates the user with the defaults whether or not one exists
ImplicitUserAlways(tbl, seq, chat_id) ==
    CreateOrUpdate(tbl, seq, chat_id, DefaultGoals)

\* "user = get_user_by_chat_id(chat_id); if not user: user =
\*  create_or_update_user(chat_id)" of /start and /inventory add
ImplicitUser(tbl, seq, chat_id) ==
    IF get_user_by_chat_id(tbl, chat_id) = {}
    THEN CreateOrUpdate(tbl, seq, chat_id, DefaultGoals)
    ELSE [users |-> tbl, sqlite_sequence |-> seq]

\* a row of table logs
Log(id, user_id, food_id, amount_grams, log_date) ==
    [id |-> id, user_id |-> user_id, food_id |-> food_id,
     amount_grams |-> amount_grams, date |-> log_date]

\* log_food with log_date = date.today(): the table after the INSERT
log_food(tbl, user_id, food_id, amount_grams, day) ==
    tbl \cup {Log(Cardinality(tbl) + 1, user_id, food_id, amount_grams, day)}

\* the arguments of /setgoal: the usage example, other goals, and lists that
\* are short, empty, not numbers, zero, negative or fractional calories
SetgoalArgs ==
    { <<T2000, T150, T160, T60>>, <<T1800, T100, T150, T60>>,
      <<T2000, T150, T160>>, << >>, <<T2000, TAbc, T160, T60>>,
      <<T2000, TNan, T160, T60>>, <<T0, T150, T160, T60>>,
      <<T2000, T150, TMinus5, T60>>, <<T2000_5, T150, T160, T60>> }

\* the arguments of /log: the two usage examples' shapes, and bad amounts
LogArgs ==
    { <<TEggs, T100>>, <<TChicken, TBreast, T150>>, <<TEggs>>,
      <<TEggs, T0>>, <<TAbc, T100>> }

\* the arguments of /inventory add
InventoryAddArgs ==
    { <<TEggs, T500>>, <<Tok("rice", "word", 0), T150>>, <<TAbc, T100>>, <<TEggs>> }

\* what a handler leaves behind: the command, and how it ended
Reply(command, chat_id, args, kind) ==
    [command |-> command, chat_id |-> chat_id, args |-> args, kind |-> kind]

\* /start
start_command(chat_id) ==
    LET after   == ImplicitUser(users, sqlite_sequence, chat_id)
        written == after.users # users
    IN  /\ written => commands < MaxWrites
        /\ users' = after.users
        /\ sqlite_sequence' = after.sqlite_sequence
        /\ commands' = IF written THEN commands + 1 ELSE commands
        /\ reply' = Reply("start", chat_id, << >>, "welcome")
        /\ UNCHANGED <<user_calls, logs_table, today>>
        /\ UNCHANGED <<allocVars, arithVars, invVars>>

\* /setgoal <calories> <protein> <carbs> <fat>; the reply keeps the table
\* users as the handler found it
setgoal_command(chat_id, args) ==
    LET parsed == /\ int_of(args[1]) # {}
                  /\ \A k \in 2..4 : float_of(args[k]) # {}
        calories == CHOOSE v \in int_of(args[1]) : TRUE
        protein  == CHOOSE x \in float_of(args[2]) : TRUE
        carbs    == CHOOSE x \in float_of(args[3]) : TRUE
        fat      == CHOOSE x \in float_of(args[4]) : TRUE
        outcome  == IF Len(args) # 4 THEN "usage"
                    ELSE IF ~parsed THEN "invalid"
                    ELSE IF calories <= 0 \/ LessZero(protein) \/ LessZero(carbs)
                            \/ LessZero(fat) THEN "invalid"
                    ELSE "goals_set"
        after    == CreateOrUpdate(users, sqlite_sequence, chat_id,
                                   Goals({calories}, SqlReal(protein),
                                         SqlReal(carbs), SqlReal(fat)))
    IN  /\ outcome = "goals_set" => commands < MaxWrites
        /\ reply' = Reply("setgoal", chat_id, args, outcome)
                       @@ [users_before |-> users]
        /\ IF outcome = "goals_set"
           THEN /\ users' = after.users
                /\ sqlite_sequence' = after.sqlite_sequence
                /\ commands' = commands + 1
           ELSE UNCHANGED <<users, sqlite_sequence, commands>>
        /\ UNCHANGED <<user_calls, logs_table, today>>
        /\ UNCHANGED <<allocVars, arithVars, invVars>>

\* food_name = context.args[0].lower(); amount = float(context.args[1]);
\* the set holding the amount, empty when the handler replies "Invalid amount"
ParseAmount(args) ==
    {x \in float_of(args[2]) : ~LeqZero(x)}

\* /log <food> <amount>
log_command(chat_id, args) ==
    LET user == get_user_by_chat_id(users, chat_id)
        food == get_food_by_name(<<args[1].text>>)
        amount == CHOOSE x \in ParseAmount(args) : TRUE
        row_user == CHOOSE r \in user : TRUE
        row_food == CHOOSE i \in food : TRUE
        outcome == IF Len(args) < 2 THEN "usage"
                   ELSE IF ParseAmount(args) = {} THEN "invalid"
                   ELSE IF user = {} THEN "no_user"
                   ELSE IF food = {} THEN "not_found"
                   ELSE IF amount.nan THEN "exception"
                   ELSE "logged"
    IN  /\ outcome = "logged" => commands < MaxWrites
        /\ reply' = Reply("log", chat_id, args, outcome)
        /\ IF outcome = "logged"
           THEN /\ logs_table' = log_food(logs_table, row_user.id, row_food,
                                          amount.v, today)
                /\ commands' = commands + 1
           ELSE UNCHANGED <<logs_table, commands>>
        /\ UNCHANGED <<users, sqlite_sequence, user_calls, today>>
        /\ UNCHANGED <<allocVars, arithVars, invVars>>

\* /inventory add <food> <amount>: the user is created before the food is
\* looked up
inventory_add_command(chat_id, args) ==
    LET parsed == Len(args) >= 2 /\ ParseAmount(args) # {}
        after  == IF parsed THEN ImplicitUser(users, sqlite_sequence, chat_id)
                  ELSE [users |-> users, sqlite_sequence |-> sqlite_sequence]
        user   == get_user_by_chat_id(after.users, chat_id)
        food   == get_food_by_name(<<args[1].text>>)
        amount == CHOOSE x \in ParseAmount(args) : TRUE
        row_user == CHOOSE r \in user : TRUE
        row_food == CHOOSE i \in food : TRUE
        outcome == IF Len(args) < 2 THEN "usage"
                   ELSE IF ParseAmount(args) = {} THEN "invalid"
                   ELSE IF food = {} THEN "not_found"
                   ELSE IF amount.nan THEN "exception"
                   ELSE "added"
        written == after.users # users \/ outcome = "added"
    IN  /\ written => commands < MaxWrites
        /\ reply' = Reply("inventory_add", chat_id, args, outcome)
        /\ users' = after.users
        /\ sqlite_sequence' = after.sqlite_sequence
        /\ IF outcome = "added"
           THEN inventory_table' =
                  add_to_inventory_write(inventory_table,
                      InvCall("add", row_user.id, row_food, amount.v),
                      SelectQuantity(inventory_table, row_user.id, row_food))
           ELSE UNCHANGED inventory_table
        /\ commands' = IF written THEN commands + 1 ELSE commands
        /\ UNCHANGED <<user_calls, logs_table, today, call, overlap, inv_calls>>
        /\ UNCHANGED <<allocVars, arithVars>>

\* get_user_logs_today without the test on the date
get_user_logs_any_day(tbl, user_id, day) ==
    {r \in tbl : r.user_id = user_id}

\* get_user_logs_today: the rows "WHERE l.user_id = ? AND l.date = ?", the
\* date being date.today()
get_user_logs_today(tbl, user_id, day) ==
    {r \in tbl : r.user_id = user_id /\ r.date = day}

\* the rows as the list of dicts the handler folds over (joined with foods,
\* newest first)
RECURSIVE LogDicts(_)
LogDicts(rows) ==
    IF rows = {} THEN << >>
    ELSE LET newest == CHOOSE r \in rows : \A o \in rows : o.id <= r.id
         IN  <<LogRow(FoodRow(newest.food_id), newest.amount_grams)>>
               \o LogDicts(rows \ {newest})

\* MacroTargets(user.calories_goal, ...): goals in tenths, as macro units
TargetsOf(user) ==
    LET v(col) == (CHOOSE x \in col : TRUE) * (Unit \div 10)
    IN  MacroTargets(v(user.calories_goal), v(user.protein_goal),
                     v(user.carbs_goal), v(user.fat_goal))

\* a goal read back as None: "targets.<n> - consumed.<n>" raises TypeError
HasNullGoal(user) ==
    \/ user.calories_goal = {} \/ user.protein_goal = {}
    \/ user.carbs_goal = {} \/ user.fat_goal = {}

\* the rows of get_user_inventory as the engine takes them: quantity in
\* hundredths of a gram
EngineInventory(rows) ==
    [k \in 1..Len(rows) |-> [rows[k] EXCEPT !.quantity_grams = @ * 10]]

\* "max_foods: int = 3", the default the handler leaves in place
DefaultMaxFoods == 3

\* the for loop of calculate_meal_suggestion from position i on
RECURSIVE MealLoop(_, _, _, _, _, _, _)
MealLoop(inv, sf, mf, i, sugg, rem, tieUp) ==
    IF i > Len(Window(sf, mf)) \/ BreakTest(sugg, mf) THEN sugg
    ELSE LET food   == inv[sf[i]]
             amount == calculate_optimal_amount(food, rem, tieUp)
             food_macros == calculate_food_macros(food, amount)
         IN  IF Accepted(food, amount)
             THEN MealLoop(inv, sf, mf, NextIndex(i, TRUE),
                           Append(sugg, FoodSuggestion(food, sf[i], amount, food_macros)),
                           Subtract(rem, food_macros), tieUp)
             ELSE MealLoop(inv, sf, mf, NextIndex(i, FALSE), sugg, rem, tieUp)

\* calculate_meal_suggestion(remaining_macros, inventory, max_foods) as a
\* function; tieUp is the side on which its rounding ties fall
calculate_meal_suggestion(rm, inv, mf, tieUp) ==
    IF inv = << >> THEN << >>
    ELSE MealLoop(inv, sorted(inv), mf, 1, << >>, rm, tieUp)

\* the inventory table after /suggest has replied, had the handler taken the
\* suggested amounts (tenths of a gram) out of it
InventoryAfterSuggestTaken(tbl, user_id, sugg) ==
    {IF r.user_id = user_id
        /\ \E k \in 1..Len(sugg) : sugg[k].food_id = r.food_id
     THEN [r EXCEPT !.quantity_grams =
             @ - (CHOOSE a \in {sugg[k].amount_grams :
                                  k \in {j \in 1..Len(sugg) : sugg[j].food_id = r.food_id}}
                    : TRUE)]
     ELSE r : r \in tbl}

\* the inventory table after /suggest has replied: the handler calls nothing
\* that writes
InventoryAfterSuggest(tbl, user_id, sugg) == tbl

\* /suggest; the reply keeps the day, the consumed total, the remaining and,
\* for either side of a rounding tie, the suggestions
suggest_command(chat_id) ==
    LET user == get_user_by_chat_id(users, chat_id)
        row  == CHOOSE r \in user : TRUE
        rows == get_user_logs_today(logs_table, row.id, today)
        cons == accumulate(LogDicts(rows))
        rem  == calculate_remaining_macros(TargetsOf(row), cons)
        inv  == EngineInventory(get_user_inventory(inventory_table, row.id))
        sugg == [t \in BOOLEAN |->
                   calculate_meal_suggestion(rem, inv, DefaultMaxFoods, t)]
        said == Reply("suggest", chat_id, << >>, "none") @@ [date |-> today]
    IN  /\ IF user = {}
           THEN /\ reply' = [said EXCEPT !.kind = "no_user"]
                /\ UNCHANGED inventory_table
           ELSE IF HasNullGoal(row)
           THEN /\ reply' = [said EXCEPT !.kind = "exception"]
                /\ UNCHANGED inventory_table
           ELSE IF inv = << >>
           THEN /\ reply' = [said EXCEPT !.kind = "no_inventory"]
                               @@ [consumed |-> cons, remaining |-> rem]
                /\ UNCHANGED inventory_table
           ELSE /\ reply' = [said EXCEPT !.kind =
                               IF \A t \in BOOLEAN : sugg[t] = << >>
                               THEN "all_set" ELSE "suggestions"]
                               @@ [consumed |-> cons, remaining |-> rem,
                                   suggestions |-> sugg]
                /\ inventory_table' =
                     InventoryAfterSuggest(inventory_table, row.id, sugg[TRUE])
        /\ UNCHANGED <<users, sqlite_sequence, user_calls, logs_table, today,
                       commands, call, overlap, inv_calls>>
        /\ UNCHANGED <<allocVars, arithVars>>

\* /status; the reply keeps the day, the consumed total and the progress
status_command(chat_id) ==
    LET user == get_user_by_chat_id(users, chat_id)
        row  == CHOOSE r \in user : TRUE
        rows == get_user_logs_today(logs_table, row.id, today)
        cons == accumulate(LogDicts(rows))
        said == Reply("status", chat_id, << >>, "none") @@ [date |-> today]
    IN  /\ reply' = IF user = {} THEN [said EXCEPT !.kind = "no_user"]
                    ELSE IF HasNullGoal(row) THEN [said EXCEPT !.kind = "exception"]
                    ELSE [said EXCEPT !.kind = "status"]
                           @@ [consumed |-> cons,
                               remaining |-> calculate_remaining_macros(TargetsOf(row), cons),
                               progress |-> calculate_daily_progress(TargetsOf(row), cons),
                               logs |-> Cardinality(rows)]
        /\ UNCHANGED <<users, sqlite_sequence, user_calls, logs_table, today, commands>>
        /\ UNCHANGED <<allocVars, arithVars, invVars>>

\* /inventory list
inventory_list_command(chat_id) ==
    LET user == get_user_by_chat_id(users, chat_id)
        row  == CHOOSE r \in user : TRUE
        inv  == get_user_inventory(inventory_table, row.id)
        said == Reply("inventory_list", chat_id, << >>, "none")
    IN  /\ reply' = IF user = {} THEN [said EXCEPT !.kind = "no_user"]
                    ELSE IF inv = << >> THEN [said EXCEPT !.kind = "empty"]
                    ELSE [said EXCEPT !.kind = "list"] @@ [inventory |-> inv]
        /\ UNCHANGED <<users, sqlite_sequence, user_calls, logs_table, today, commands>>
        /\ UNCHANGED <<allocVars, arithVars, invVars>>

\* midnight passes: date.today() moves on
NextDay ==
    /\ commands < MaxWrites
    /\ today' = today + 1
    /\ commands' = commands + 1
    /\ UNCHANGED <<users, sqlite_sequence, user_calls, logs_table, reply>>
    /\ UNCHANGED <<allocVars, arithVars, invVars>>

BotNext ==
    \/ \E chat_id \in ChatIds : start_command(chat_id)
    \/ \E chat_id \in ChatIds, args \in SetgoalArgs : setgoal_command(chat_id, args)
    \/ \E chat_id \in ChatIds, args \in LogArgs : log_command(chat_id, args)
    \/ \E chat_id \in ChatIds, args \in InventoryAddArgs :
          inventory_add_command(chat_id, args)
    \/ \E chat_id \in ChatIds : inventory_list_command(chat_id)
    \/ \E chat_id \in ChatIds : suggest_command(chat_id)
    \/ \E chat_id \in ChatIds : status_command(chat_id)
    \/ NextDay

SpecBot == Init /\ [][BotNext]_vars

----------------------------------------------------------------------------
(* Properties of the allocator (specification SpecAlloc) *)

\* the 0-based place of inventory position i in the order "descending calories,
\* equal calories in input order": the number of positions that come before it
Rank(inv, i) ==
    Cardinality({j \in 1..Len(inv) :
                    \/ inv[j].calories_per_100g > inv[i].calories_per_100g
                    \/ /\ inv[j].calories_per_100g = inv[i].calories_per_100g
                       /\ j < i})

\* the number of candidates among the first k examined that were accepted
AcceptedBefore(k) ==
    Cardinality({j \in 1..k : examined[j].accepted})

\* C1: the call returns at most max_foods suggestions (at most 3 with the
\* default max_foods = 3); no candidate is examined once max_foods picks are
\* accepted, and the call returns only when max_foods picks are accepted or
\* every candidate of the window has been examined.
C1_AtMostMaxFoods ==
    /\ Len(suggestions) <= max_foods
    /\ (max_foods = 3 => Len(suggestions) <= 3)
    /\ \A k \in 1..Len(examined) : AcceptedBefore(k - 1) < max_foods
    /\ (pc = "done" /\ inventory # << >>) =>
          \/ Len(suggestions) = max_foods
          \/ Len(examined) = Len(inventory)
          \/ Len(examined) = 2 * max_foods

\* a call that stopped on max_foods picks with a candidate of the window left
C1_Witness ==
    /\ pc = "done"
    /\ max_foods = 2
    /\ Len(suggestions) = 2
    /\ Len(examined) = 2
    /\ Len(inventory) = 3

\* C2: every suggestion's amount is > 0, at most the quantity on hand of its
\* inventory item, and at most 500 (amounts in tenths, quantities in hundredths).
C2_AmountInRange ==
    \A k \in 1..Len(suggestions) :
        LET s == suggestions[k]
        IN  /\ s.amount_grams > 0
            /\ s.amount_grams * 10 <= inventory[s.src].quantity_grams
            /\ s.amount_grams <= 500 * 10

\* a call that suggested the 500 cap of an item with more on hand, and rejected
\* an item whose quantity lies below its rounded amount
C2_Witness ==
    /\ pc = "done"
    /\ \E k \in 1..Len(suggestions) :
          /\ suggestions[k].amount_grams = 500 * 10
          /\ inventory[suggestions[k].src].quantity_grams > 500 * 100
    /\ \E k \in 1..Len(examined) :
          /\ ~examined[k].accepted
          /\ examined[k].amount > 0
          /\ examined[k].amount * 10 > inventory[examined[k].src].quantity_grams
    /\ \E k \in 1..Len(examined) :
          /\ ~examined[k].accepted
          /\ examined[k].amount = 0
          /\ inventory[examined[k].src].quantity_grams \in 1..4

\* C3: a candidate that sees protein <= 0 and calories <= 0 in the running
\* remaining gets amount 0 and is not suggested, whatever carbs and fat remain;
\* a call whose initial remaining has protein <= 0 and calories <= 0 returns
\* the empty list.
C3_EarlyExit ==
    /\ \A k \in 1..Len(examined) :
          (examined[k].seen.protein <= 0 /\ examined[k].seen.calories <= 0) =>
              /\ examined[k].amount = 0
              /\ ~examined[k].accepted
              /\ \A j \in 1..Len(suggestions) : suggestions[j].src # examined[k].src
    /\ (remaining_macros.protein <= 0 /\ remaining_macros.calories <= 0) =>
          suggestions = << >>

\* after a pick, a candidate with carbs on offer sees carbs still open but
\* protein and calories exhausted, and is passed over
C3_Witness ==
    \E k \in 2..Len(examined) :
        /\ AcceptedBefore(k - 1) >= 1
        /\ examined[k].seen.protein <= 0
        /\ examined[k].seen.calories <= 0
        /\ examined[k].seen.carbs > 0
        /\ inventory[examined[k].src].carbs_per_100g > 0
        /\ inventory[examined[k].src].quantity_grams >= 100 * 100

\* C6: only the first 2 * max_foods places of the order "descending calories"
\* are examined; no item at a later place is suggested.
C6_WindowOnly ==
    /\ \A k \in 1..Len(examined) :
          Rank(inventory, examined[k].src) < 2 * max_foods
    /\ \A k \in 1..Len(suggestions) :
          Rank(inventory, suggestions[k].src) < 2 * max_foods

\* every item of the window was rejected, fewer than max_foods picks were made,
\* and an item outside the window that would have been accepted stays out
C6_Witness ==
    /\ pc = "done"
    /\ max_foods = 1
    /\ suggestions = << >>
    /\ Len(examined) = 2
    /\ \E i \in 1..Len(inventory) :
          /\ Rank(inventory, i) >= 2 * max_foods
          /\ inventory[i].protein_per_100g > 0
          /\ inventory[i].quantity_grams >= 100 * 100
          /\ remaining.protein > 100 * Unit

\* C7: candidates are examined, and suggestions returned, in descending
\* calories, with equal calories in input order.
InOrder(a, b) ==
    \/ inventory[a].calories_per_100g > inventory[b].calories_per_100g
    \/ /\ inventory[a].calories_per_100g = inventory[b].calories_per_100g
       /\ a < b

C7_StableDescending ==
    /\ \A j, k \in 1..Len(examined) :
          j < k => InOrder(examined[j].src, examined[k].src)
    /\ \A j, k \in 1..Len(suggestions) :
          j < k => InOrder(suggestions[j].src, suggestions[k].src)

\* two different foods of equal calories are both suggested, the one that came
\* first in the input first, although its food_id is the larger
C7_Witness ==
    /\ Len(suggestions) >= 2
    /\ suggestions[1].food_id = Tofu.food_id
    /\ suggestions[2].food_id = Eggs.food_id
    /\ suggestions[1].src < suggestions[2].src

\* the nutrients of food that qualify against rem: profile > 0 and remaining > 0
Qualifying(food, rem) ==
    {n \in Nutrients : Per100(food, n) > 0 /\ rem[n] > 0}

\* a (tenths of a gram) is a nearest tenth to
\*   min(min over qualifying n of rem[n] / profile[n] * 100, quantity, 500):
\* a - 1/2 is at most every term, and a + 1/2 is at least one of them
IsRoundedMin(a, food, rem) ==
    /\ \A n \in Qualifying(food, rem) : (2 * a - 1) * Per100(food, n) <= 2 * rem[n]
    /\ (2 * a - 1) * 10 <= 2 * food.quantity_grams
    /\ 2 * a - 1 <= 2 * 500 * 10
    /\ \/ \E n \in Qualifying(food, rem) : 2 * rem[n] <= (2 * a + 1) * Per100(food, n)
       \/ 2 * food.quantity_grams <= (2 * a + 1) * 10
       \/ 2 * 500 * 10 <= 2 * a + 1

\* C5 as stated: every examined candidate with a qualifying nutrient gets the
\* rounded minimum of its fill amounts, its quantity on hand and 500.
C5_Original ==
    \A k \in 1..Len(examined) :
        LET food == inventory[examined[k].src]
            seen == examined[k].seen
        IN  Qualifying(food, seen) # {} => IsRoundedMin(examined[k].amount, food, seen)

\* C5 (amended): a candidate with a qualifying nutrient gets the rounded minimum
\* of its fill amounts, its quantity on hand and 500 when the running remaining
\* has protein > 0 or calories > 0, and amount 0 when both are <= 0; eggs
\* {155, 13, 1.1, 11} with 500 on hand against {1700, 120, 160, 45} get 409.1.
C5_RoundedMin ==
    \A k \in 1..Len(examined) :
        LET food == inventory[examined[k].src]
            seen == examined[k].seen
        IN  /\ Qualifying(food, seen) # {} =>
                 IF seen.protein > 0 \/ seen.calories > 0
                 THEN IsRoundedMin(examined[k].amount, food, seen)
                 ELSE examined[k].amount = 0
            /\ (food = Eggs /\ seen = Budget(1700, 120, 160, 45)) =>
                 examined[k].amount = 4091

\* the eggs of the example were examined against the example's remaining and
\* suggested at 409.1, the fat-constrained fill amount
C5_Witness ==
    \E k \in 1..Len(examined) :
        /\ inventory[examined[k].src] = Eggs
        /\ examined[k].seen = Budget(1700, 120, 160, 45)
        /\ Qualifying(Eggs, examined[k].seen) = Nutrients
        /\ examined[k].accepted
        /\ examined[k].amount = 4091

\* the sum of nutrient n over the first k suggestions
RECURSIVE SumField(_, _)
SumField(n, k) ==
    IF k = 0 THEN 0 ELSE suggestions[k][n] + SumField(n, k - 1)

\* C8: the running remaining a candidate sees is the initial remaining minus
\* the fieldwise sum of the suggestions accepted before it, not floored at
\* zero, and a rejected candidate leaves it unchanged.
C8_RunningRemaining ==
    /\ \A k \in 1..Len(examined) : \A n \in Nutrients :
          examined[k].seen[n] = remaining_macros[n] - SumField(n, AcceptedBefore(k - 1))
    /\ \A k \in 1..Len(examined) :
          ~examined[k].accepted =>
              IF k < Len(examined)
              THEN examined[k + 1].seen = examined[k].seen
              ELSE remaining = examined[k].seen
    /\ inventory # << >> =>
          \A n \in Nutrients :
              remaining[n] = remaining_macros[n] - SumField(n, Len(suggestions))

\* a candidate examined after a pick sees a negative field, and a rejected
\* candidate was followed by another
C8_Witness ==
    /\ \E k \in 2..Len(examined) :
          /\ AcceptedBefore(k - 1) >= 1
          /\ \E n \in Nutrients : examined[k].seen[n] < 0
          /\ \E n \in Nutrients : examined[k].seen[n] > 0
    /\ \E k \in 1..(Len(examined) - 1) : ~examined[k].accepted
    /\ Len(suggestions) = 2

\* C9 as stated: an accepted pick's quantity of a nutrient whose running
\* remaining was > 0 is at most that running remaining.
C9_Original ==
    \A k \in 1..Len(examined) : \A n \in Nutrients :
        (examined[k].accepted /\ examined[k].seen[n] > 0) =>
            Per100(inventory[examined[k].src], n) * examined[k].amount
                <= examined[k].seen[n]

\* C9 (amended): an accepted pick's quantity of a nutrient whose running
\* remaining was > 0 exceeds that running remaining by at most the nutrient
\* content of half a rounding step (0.05 mass-units) of the food.
C9_OvershootWithinHalfStep ==
    \A k \in 1..Len(examined) : \A n \in Nutrients :
        (examined[k].accepted /\ examined[k].seen[n] > 0) =>
            2 * Per100(inventory[examined[k].src], n) * examined[k].amount
                <= 2 * examined[k].seen[n] + Per100(inventory[examined[k].src], n)

\* an accepted pick that overshoots a nutrient with running remaining > 0
C9_Witness ==
    \E k \in 1..Len(examined) : \E n \in Nutrients :
        /\ examined[k].accepted
        /\ examined[k].seen[n] > 0
        /\ Per100(inventory[examined[k].src], n) * examined[k].amount
              > examined[k].seen[n]

----------------------------------------------------------------------------
(* Properties of the arithmetic and progress functions (specification SpecArith) *)

\* C4: for non-negative target and consumed, each field of the remaining is
\* target - consumed when that is >= 0 and 0 otherwise, so never negative; an
\* all-zero target gives an all-zero remaining.
C4_RemainingFloored ==
    result.op = "remaining" =>
        /\ \A n \in Nutrients :
              /\ result.value[n] >= 0
              /\ targets[n] >= consumed[n] => result.value[n] = targets[n] - consumed[n]
              /\ targets[n] < consumed[n] => result.value[n] = 0
        /\ targets = NoMacros => result.value = NoMacros

\* a remaining with a floored field and an open field
C4_Witness ==
    /\ result.op = "remaining"
    /\ consumed.calories > targets.calories
    /\ consumed.protein < targets.protein
    /\ result.value.calories = 0
    /\ result.value.protein > 0

\* C10: for non-negative consumed and target, each percentage p satisfies
\* 0 <= p <= 100; p is 100 when target = 0 or consumed >= target, and
\* consumed / target * 100 otherwise.
C10_PercentageClamped ==
    result.op = "progress" =>
        \A n \in Nutrients :
            LET p == result.value[n].percentage
            IN  /\ p[2] > 0
                /\ 0 <= p[1]
                /\ p[1] \div p[2] <= 100
                /\ (p[1] \div p[2] = 100 => p[1] % p[2] = 0)
                /\ targets[n] = 0 => p = <<100, 1>>
                /\ (targets[n] > 0 /\ consumed[n] >= targets[n]) =>
                      (p[1] \div p[2] = 100 /\ p[1] % p[2] = 0)
                /\ (targets[n] > 0 /\ consumed[n] < targets[n]) =>
                      p = <<consumed[n] * 100, targets[n]>>

\* a progress with a zero target, a consumption above target and one below
C10_Witness ==
    /\ result.op = "progress"
    /\ targets.calories > 0 /\ consumed.calories > targets.calories
    /\ targets.protein > 0 /\ consumed.protein > 0 /\ consumed.protein < targets.protein
    /\ targets.carbs = 0 /\ consumed.carbs > 0

\* C11 as stated: for any percentage, also above 100 and below 0, and any
\* width >= 0, the filled cells number between 0 and width and the bar has
\* exactly width cells.
C11_Clamped ==
    result.op = "bar" =>
        /\ result.value.filled \in 0..result.width
        /\ result.value.filled + result.value.empty = result.width

\* C12: for 0 <= percentage <= 100 the bar has exactly width cells, of which
\* floor(percentage / 100 * width) are filled; 55 with width 10 gives 5 filled
\* and 5 empty.
C12_FloorFilled ==
    (result.op = "bar" /\ result.percentage >= 0 /\ result.percentage <= 100 * 10) =>
        /\ result.value.filled + result.value.empty = result.width
        /\ result.value.filled >= 0
        /\ result.value.empty >= 0
        /\ result.value.filled * 100 * 10 <= result.percentage * result.width
        /\ result.percentage * result.width < (result.value.filled + 1) * 100 * 10
        /\ (result.percentage = 550 /\ result.width = 10) =>
              (result.value.filled = 5 /\ result.value.empty = 5)

\* the bar of the example: 55.0 with width 10
C12_Witness ==
    /\ result.op = "bar"
    /\ result.percentage = 550
    /\ result.width = 10
    /\ result.value.filled = 5
    /\ result.value.empty = 5

\* C13: the result at amount 100 is the profile, the result at amount 0 is
\* all-zero, a non-negative profile and amount give non-negative fields, and
\* {200, 20, 0, 10} at 150 gives {300, 30, 0, 15}.
C13_ScaleByAmount ==
    result.op = "food_macros" =>
        /\ result.amount = 100 * 10 =>
              \A n \in Nutrients :
                  result.value[n] * 10 = Per100(result.food, n) * Unit
        /\ result.amount = 0 => result.value = NoMacros
        /\ result.amount >= 0 => \A n \in Nutrients : result.value[n] >= 0
        /\ (result.food = ExampleFood /\ result.amount = 150 * 10) =>
              result.value = Budget(300, 30, 0, 15)

\* the spec's example was computed
C13_Witness ==
    /\ result.op = "food_macros"
    /\ result.food = ExampleFood
    /\ result.amount = 150 * 10
    /\ result.value = Budget(300, 30, 0, 15)

\* the events of logs in the order given by the permutation f of 1..Len(logs)
Permuted(logs, f) == [i \in 1..Len(logs) |-> logs[f[i]]]

\* C14: the consumed total folded over a day's events is the same for every
\* permutation of the events, and all-zero for no events.
C14_OrderIndependent ==
    result.op = "consumed" =>
        /\ \A f \in Permutations(1..Len(result.logs)) :
              accumulate(Permuted(result.logs, f)) = result.value
        /\ consumed = result.value
        /\ result.logs = << >> => result.value = NoMacros

\* three different events were folded
C14_Witness ==
    /\ result.op = "consumed"
    /\ Len(result.logs) = 3
    /\ result.logs[1] # result.logs[2]
    /\ result.logs[2] # result.logs[3]
    /\ result.logs[1] # result.logs[3]
    /\ result.value.carbs > 0

\* C15 as stated: a call with a negative amount is rejected, so no returned
\* quantity has a negative field.
C15_FailsFast ==
    result.op = "food_macros" =>
        /\ result.amount >= 0
        /\ \A n \in Nutrients : result.value[n] >= 0

----------------------------------------------------------------------------
\* C16: calculate_meal_suggestion leaves its inputs alone: from the first loop
\* test to the return, every step leaves the caller's remaining_macros with its
\* four values and the caller's inventory with its items, order and quantities.
C16_InputsUntouched ==
    [][pc = "loop" =>
         /\ remaining_macros' = remaining_macros
         /\ inventory' = inventory]_vars

\* a call has returned two picks out of an inventory the sort reordered, and
\* the running remaining has moved away from the caller's values
C16_Witness ==
    /\ pc = "done"
    /\ Len(suggestions) >= 2
    /\ remaining # remaining_macros
    /\ \E i \in 1..Len(sorted_foods) : sorted_foods[i] # i

\* C17: the allocator does not backtrack: the window is walked once from its
\* head, so no inventory item is examined twice, none is suggested twice, and a
\* candidate that was rejected is not among the suggestions.
C17_NoBacktracking ==
    /\ \A i, j \in 1..Len(examined) :
          i < j => /\ examined[i].pos < examined[j].pos
                   /\ examined[i].src # examined[j].src
    /\ \A i, j \in 1..Len(suggestions) :
          i < j => suggestions[i].src # suggestions[j].src
    /\ \A e \in 1..Len(examined) :
          ~examined[e].accepted =>
              \A k \in 1..Len(suggestions) : suggestions[k].src # examined[e].src

\* a call has returned after rejecting a candidate that still had a nutrient
\* to fill and then accepting two later ones
C17_Witness ==
    /\ pc = "done"
    /\ \E e, a, b \in 1..Len(examined) :
          /\ e < a /\ a < b
          /\ ~examined[e].accepted
          /\ \E n \in Nutrients : examined[e].seen[n] > 0
          /\ examined[a].accepted
          /\ examined[b].accepted

\* every quotient of the list "amounts" has a positive divisor
PositiveDivisors(food, rem) ==
    \A k \in 1..Len(Amounts(food, rem)) : Amounts(food, rem)[k][2] > 0

\* C18: a candidate whose profile is 0 for every nutrient whose running
\* remaining is > 0 gets amount 0 and is not suggested, and no quotient of the
\* fill amounts, for an examined candidate or for the one about to be examined,
\* divides by a profile value of 0.
C18_ZeroProfileSkipped ==
    /\ \A e \in 1..Len(examined) :
          LET food == inventory[examined[e].src]
          IN  /\ PositiveDivisors(food, examined[e].seen)
              /\ Qualifying(food, examined[e].seen) = {} =>
                     /\ examined[e].amount = 0
                     /\ ~examined[e].accepted
                     /\ \A k \in 1..Len(suggestions) :
                            suggestions[k].src # examined[e].src
    /\ (pc = "loop" /\ idx <= Len(Window(sorted_foods, max_foods))) =>
          PositiveDivisors(inventory[sorted_foods[idx]], remaining)

\* a call has returned after passing over a candidate that had no nutrient to
\* offer although protein was still wanted, and picking a later candidate
C18_Witness ==
    /\ pc = "done"
    /\ \E e, a \in 1..Len(examined) :
          /\ e < a
          /\ ~EarlyExit(examined[e].seen)
          /\ Qualifying(inventory[examined[e].src], examined[e].seen) = {}
          /\ examined[e].amount = 0
          /\ examined[a].accepted

----------------------------------------------------------------------------
(* Properties of the storage layer (specifications SpecUsers, SpecInventory) *)

\* the positions in the history of the calls made for chat_id c
CallsFor(c) == {k \in 1..Len(user_calls) : user_calls[k].chat_id = c}

\* C19: after any sequence of create_or_update_user calls, a chat_id that was
\* never passed has no row, and a chat_id that was passed has exactly one row,
\* whose id is the one returned by the first call for it and whose four goals
\* are those of the last call for it.
C19_OneRowLatestGoals ==
    \A c \in ChatIds :
        LET rows == {r \in users : r.chat_id = c}
            ks   == CallsFor(c)
        IN  IF ks = {} THEN rows = {}
            ELSE LET first == CHOOSE k \in ks : \A j \in ks : k <= j
                     last  == CHOOSE k \in ks : \A j \in ks : j <= k
                 IN  rows = {UserRow(user_calls[first].user_id, c,
                                     user_calls[last].goals)}

\* the user created second has been given new goals that differ in every
\* field from those it was created with
C19_Witness ==
    \E c \in ChatIds :
        LET ks == CallsFor(c)
        IN  /\ Cardinality(ks) >= 2
            /\ \E r \in users : r.chat_id = c /\ r.id = 2
            /\ \E a, b \in ks :
                  /\ a < b
                  /\ \A j \in ks : j <= b
                  /\ \A g \in DOMAIN user_calls[a].goals :
                        user_calls[a].goals[g] # user_calls[b].goals[g]

\* the table after call c has run alone on tbl, SELECT to return
RunAlone(tbl, c) ==
    LET existing == SelectQuantity(tbl, c.user_id, c.food_id)
    IN  IF c.op = "add" THEN add_to_inventory_write(tbl, c, existing)
        ELSE IF RemoveRejected(c, existing) THEN tbl
        ELSE remove_from_inventory_write(tbl, c, existing)

\* the table after the calls of cs have run one after the other on tbl
RECURSIVE RunInOrder(_, _)
RunInOrder(tbl, cs) ==
    IF cs = << >> THEN tbl
    ELSE RunInOrder(RunAlone(tbl, Head(cs)), Tail(cs))

\* C20 (as claimed): when two calls for the same user and food have run
\* interleaved and both have returned, the stored quantities are those left by
\* running the two calls in one of the two sequential orders.
C20_Serialized ==
    (/\ Quiescent
     /\ Len(overlap.calls) = 2
     /\ overlap.calls[1].user_id = overlap.calls[2].user_id
     /\ overlap.calls[1].food_id = overlap.calls[2].food_id)
    => \/ inventory_table = RunInOrder(overlap.start, overlap.calls)
       \/ inventory_table = RunInOrder(overlap.start,
                                       <<overlap.calls[2], overlap.calls[1]>>)

----------------------------------------------------------------------------
(* Properties of the inventory calls made one after another                 *)
(* (specification SpecInventorySeq)                                         *)

\* the table after the k-th call of the history
TableAfter(k) ==
    IF k = Len(inv_calls) THEN inventory_table ELSE inv_calls[k + 1].before

\* the rows of tbl other than the row of user u and food f
OtherRows(tbl, u, f) == {r \in tbl : ~(r.user_id = u /\ r.food_id = f)}

\* C22: remove_from_inventory returns False and leaves the table as it was
\* when the user has no row for the food or the row holds less than the
\* quantity asked; otherwise it returns True, the row holds the quantity less
\* the quantity asked, or is gone when that is 0, and no other row changes.
C22_RemoveOutcome ==
    \A k \in 1..Len(inv_calls) :
        LET c      == inv_calls[k].call
            before == inv_calls[k].before
            after  == TableAfter(k)
            rows   == {r \in before : r.user_id = c.user_id /\ r.food_id = c.food_id}
        IN  c.op = "remove" =>
              IF rows = {} \/ \E r \in rows : r.quantity_grams < c.quantity_grams
              THEN inv_calls[k].ret = FALSE /\ after = before
              ELSE /\ inv_calls[k].ret = TRUE
                   /\ OtherRows(after, c.user_id, c.food_id)
                        = OtherRows(before, c.user_id, c.food_id)
                   /\ \A r \in rows :
                        IF r.quantity_grams = c.quantity_grams
                        THEN SelectQuantity(after, c.user_id, c.food_id) = {}
                        ELSE SelectQuantity(after, c.user_id, c.food_id)
                               = {r.quantity_grams - c.quantity_grams}

\* the history holds a removal refused for want of quantity, a removal that
\* left part of the row and a removal that took the whole row
C22_Witness ==
    \E i, j \in 1..Len(inv_calls) :
        /\ inv_calls[i].call.op = "remove" /\ inv_calls[i].ret = FALSE
        /\ SelectQuantity(inv_calls[i].before, inv_calls[i].call.user_id,
                          inv_calls[i].call.food_id) # {}
        /\ inv_calls[j].call.op = "remove" /\ inv_calls[j].ret = TRUE
        /\ SelectQuantity(TableAfter(j), inv_calls[j].call.user_id,
                          inv_calls[j].call.food_id) = {}

\* C23: after any sequence of add_to_inventory and remove_from_inventory
\* calls with positive quantities there is at most one row per (user, food),
\* every stored quantity is > 0, and no call changed a row of a user other
\* than the one it was made for.
C23_RowsPositiveAndPrivate ==
    /\ \A r1, r2 \in inventory_table :
          (r1.user_id = r2.user_id /\ r1.food_id = r2.food_id) => r1 = r2
    /\ \A r \in inventory_table : r.quantity_grams > 0
    /\ \A k \in 1..Len(inv_calls) :
          {r \in TableAfter(k) : r.user_id # inv_calls[k].call.user_id}
            = {r \in inv_calls[k].before : r.user_id # inv_calls[k].call.user_id}

\* a removal of the whole quantity has just taken the row of one user away
\* while the other user holds a row of the same food
C23_Witness ==
    /\ Len(inv_calls) >= 3
    /\ LET c == inv_calls[Len(inv_calls)].call
       IN  /\ c.op = "remove"
           /\ inv_calls[Len(inv_calls)].ret = TRUE
           /\ SelectQuantity(inv_calls[Len(inv_calls)].before, c.user_id, c.food_id)
                 = {c.quantity_grams}
           /\ SelectQuantity(inventory_table, c.user_id, c.food_id) = {}
           /\ \E r \in inventory_table : r.user_id # c.user_id /\ r.food_id = c.food_id

\* the quantities added to (u, f) less the quantities removed from it by the
\* calls that returned True, over the first k calls of the history
RECURSIVE NetQuantity(_, _, _)
NetQuantity(u, f, k) ==
    IF k = 0 THEN 0
    ELSE LET c == inv_calls[k].call
         IN  NetQuantity(u, f, k - 1)
               + (IF c.user_id = u /\ c.food_id = f
                  THEN IF c.op = "add" THEN c.quantity_grams
                       ELSE IF inv_calls[k].ret THEN 0 - c.quantity_grams ELSE 0
                  ELSE 0)

\* the quantities get_user_inventory reports for food f of user u
Reported(u, f) ==
    LET inv == get_user_inventory(inventory_table, u)
    IN  {inv[k].quantity_grams : k \in {j \in 1..Len(inv) : inv[j].food_id = f}}

\* C24: after any series of calls made one after another, get_user_inventory
\* lists a food of a user exactly when the quantities added less the
\* quantities removed (by removals that returned True) are > 0, and then
\* reports that value.
C24_Accumulates ==
    \A u \in SeqUserIds, f \in FoodIds :
        LET net == NetQuantity(u, f, Len(inv_calls))
        IN  Reported(u, f) = IF net > 0 THEN {net} ELSE {}

\* a food was added twice and partly removed, and is listed with what is left
C24_Witness ==
    \E u \in SeqUserIds, f \in FoodIds :
        /\ Cardinality({k \in 1..Len(inv_calls) :
                          /\ inv_calls[k].call.op = "add"
                          /\ inv_calls[k].call.user_id = u
                          /\ inv_calls[k].call.food_id = f}) >= 2
        /\ \E k \in 1..Len(inv_calls) :
              /\ inv_calls[k].call.op = "remove" /\ inv_calls[k].ret = TRUE
              /\ inv_calls[k].call.user_id = u /\ inv_calls[k].call.food_id = f
        /\ Reported(u, f) # {}

----------------------------------------------------------------------------
(* Properties of the command handlers (specification SpecBot) *)

\* the texts of the arguments before the last: the food name as typed
NameWords(args) == [k \in 1..(Len(args) - 1) |-> args[k].text]

\* the argument is a number > 0
PositiveNumber(tok) == tok.lex \in {"int", "decimal"} /\ tok.v > 0

\* C21 (as claimed): when /log is given the name of a known food, of one or
\* more words, followed by a positive amount, and the chat has a user, the
\* handler replies that the food is logged and table logs holds a new row of
\* that user, that food and that amount.
C21_MultiWordLogged ==
    (/\ reply.command = "log"
     /\ Len(reply.args) >= 2
     /\ get_user_by_chat_id(users, reply.chat_id) # {}
     /\ get_food_by_name(NameWords(reply.args)) # {}
     /\ PositiveNumber(reply.args[Len(reply.args)]))
    => /\ reply.kind = "logged"
       /\ \E r \in logs_table, u \in get_user_by_chat_id(users, reply.chat_id) :
             /\ r.id = Cardinality(logs_table)
             /\ r.user_id = u.id
             /\ r.food_id \in get_food_by_name(NameWords(reply.args))
             /\ r.amount_grams = reply.args[Len(reply.args)].v

\* the argument is the text of a number
Numeric(tok) == tok.lex \in {"int", "decimal"}

\* the arguments the claim has /setgoal reject: other than 4 of them, one that
\* is not a number, calories <= 0, or a negative protein, carbs or fat
InvalidGoals(args) ==
    IF Len(args) # 4 THEN TRUE
    ELSE IF \E k \in 1..4 : ~Numeric(args[k]) THEN TRUE
    ELSE args[1].v <= 0 \/ \E k \in 2..4 : args[k].v < 0

\* C25 (as claimed): a /setgoal with other than 4 arguments, an argument that
\* is not a number, calories <= 0 or a negative protein, carbs or fat gets an
\* error reply and leaves table users as it was.
C25_InvalidRejected ==
    (reply.command = "setgoal" /\ InvalidGoals(reply.args))
    => /\ reply.kind \in {"usage", "invalid"}
       /\ users = reply.users_before

\* nutrient n summed over a set of log rows, each row giving the profile of
\* its food times its amount
RECURSIVE SumRows(_, _)
SumRows(rows, n) ==
    IF rows = {} THEN 0
    ELSE LET r == CHOOSE x \in rows : TRUE
         IN  Per100(FoodRow(r.food_id), n) * r.amount_grams + SumRows(rows \ {r}, n)

\* C26: the consumed total that /status and /suggest work with is the sum
\* over exactly the log rows of the user dated the day of the command; with no
\* such row it is all-zero and the remaining is the target.
C26_TodayOnly ==
    (reply.command \in {"status", "suggest"} /\ "consumed" \in DOMAIN reply)
    => LET user == CHOOSE r \in users : r.chat_id = reply.chat_id
           rows == {r \in logs_table : r.user_id = user.id /\ r.date = reply.date}
       IN  /\ \A n \in Nutrients : reply.consumed[n] = SumRows(rows, n)
           /\ rows = {} => /\ reply.consumed = MacroConsumed(0, 0, 0, 0)
                           /\ reply.remaining = TargetsOf(user)

\* /status has answered a user whose only log is dated an earlier day: the
\* consumed total is all-zero
C26_Witness ==
    /\ reply.command = "status"
    /\ reply.kind = "status"
    /\ reply.date = today
    /\ \E u \in users, r \in logs_table :
          /\ u.chat_id = reply.chat_id
          /\ r.user_id = u.id
          /\ r.date < today
          /\ \A o \in logs_table : o.user_id = u.id => o.date < today
    /\ reply.consumed = MacroConsumed(0, 0, 0, 0)

\* the commands that only read
ReadOnlyCommands == {"suggest", "status", "inventory_list"}

\* what /suggest told the user
Suggested(r) ==
    [kind |-> r.kind,
     suggestions |-> IF "suggestions" \in DOMAIN r THEN r.suggestions ELSE << >>]

\* C27 (as claimed): /suggest, /status and /inventory list leave the tables
\* users, logs and inventory as they were, and a /suggest that follows a
\* /suggest of the same chat with no write in between tells what the first
\* told.
C27_Original ==
    [][/\ reply'.command \in ReadOnlyCommands =>
             /\ users' = users
             /\ logs_table' = logs_table
             /\ inventory_table' = inventory_table
       /\ (/\ reply.command = "suggest"
           /\ reply'.command = "suggest"
           /\ reply'.chat_id = reply.chat_id)
          => Suggested(reply') = Suggested(reply)]_vars

\* C27 (amended): /suggest, /status and /inventory list leave the tables
\* users, logs and inventory as they were, and a /suggest that follows a
\* /suggest of the same chat on the same day with no write in between tells
\* what the first told.
C27_ReadOnlySameDay ==
    [][/\ reply'.command \in ReadOnlyCommands =>
             /\ users' = users
             /\ logs_table' = logs_table
             /\ inventory_table' = inventory_table
       /\ (/\ reply.command = "suggest"
           /\ reply'.command = "suggest"
           /\ reply'.chat_id = reply.chat_id
           /\ reply'.date = reply.date)
          => Suggested(reply') = Suggested(reply)]_vars

\* /suggest has made a suggestion to a user who has logged food today, and
\* the inventory row it drew on holds what was added
C27_Witness ==
    /\ reply.command = "suggest"
    /\ reply.kind = "suggestions"
    /\ reply.date = today
    /\ reply.consumed # MacroConsumed(0, 0, 0, 0)
    /\ \E r \in inventory_table : r.quantity_grams = T500.v

\* C28: /start and /inventory add change no row of table users; a row they
\* add is for the chat of the command, which had none, and holds the default
\* goals.
C28_ImplicitUserKeepsGoals ==
    [][reply'.command \in {"start", "inventory_add"} =>
         /\ users \subseteq users'
         /\ \A r \in users' \ users :
               /\ r.chat_id = reply'.chat_id
               /\ get_user_by_chat_id(users, r.chat_id) = {}
               /\ r = UserRow(r.id, r.chat_id, DefaultGoals)]_vars

\* /start or /inventory add has answered a user whose goals /setgoal had set
\* to other than the defaults, and the row still holds them
C28_Witness ==
    /\ reply.command \in {"start", "inventory_add"}
    /\ \E r \in users :
          /\ r.chat_id = reply.chat_id
          /\ r.calories_goal = {T1800.v}
          /\ r.protein_goal = {T100.v}

====
